---- MODULE Spec2Model ----
(***************************************************************************)
(* Model of promptify (src/src/main.rs): one run of main over a directory  *)
(* tree.  Strings are sequences of one-character strings, so that glob     *)
(* matching, "./" replacement, Path::join, file_name and extension are     *)
(* computed character by character as the program computes them.           *)
(***************************************************************************)
EXTENDS Integers, Sequences, FiniteSets, TLC

(* ---------------------------------------------------------------------- *)
(* Bounds                                                                  *)
(* ---------------------------------------------------------------------- *)
\* longest file content (in bytes) of the generated text files
MaxContentLen == 2
\* deepest chain of nested directories above the generated a.log file
MaxDepth == 2

(* ---------------------------------------------------------------------- *)
(* Generic sequence helpers                                                *)
(* ---------------------------------------------------------------------- *)
Last(s) == s[Len(s)]

DropLast(s) == SubSeq(s, 1, Len(s) - 1)

EndsWith(s, suf) ==
  /\ Len(s) >= Len(suf)
  /\ SubSeq(s, Len(s) - Len(suf) + 1, Len(s)) = suf

StartsWith(s, pre) ==
  /\ Len(s) >= Len(pre)
  /\ SubSeq(s, 1, Len(pre)) = pre

Range(s) == {s[i] : i \in 1..Len(s)}

\* sequences over S of length at most n
RECURSIVE SeqsUpTo(_, _)
SeqsUpTo(S, n) ==
  IF n = 0 THEN {<<>>}
  ELSE LET shorter == SeqsUpTo(S, n - 1)
       IN  shorter \cup {Append(s, x) : s \in shorter, x \in S}

(* ---------------------------------------------------------------------- *)
(* glob::Pattern, as used through Pattern::new and Pattern::matches        *)
(* ---------------------------------------------------------------------- *)
\* str::trim of one comma-delimited token (line 64)
RECURSIVE TrimStart(_)
TrimStart(s) ==
  IF s # <<>> /\ Head(s) = " " THEN TrimStart(Tail(s)) ELSE s

RECURSIVE TrimEnd(_)
TrimEnd(s) ==
  IF s # <<>> /\ Last(s) = " " THEN TrimEnd(DropLast(s)) ELSE s

Trim(s) == TrimStart(TrimEnd(s))

\* str::split(',') (line 62): always at least one token, "" splits to [""]
RECURSIVE SplitOn(_, _, _)
SplitOn(s, sep, cur) ==
  IF s = <<>> THEN <<cur>>
  ELSE IF Head(s) = sep THEN <<cur>> \o SplitOn(Tail(s), sep, <<>>)
  ELSE SplitOn(Tail(s), sep, Append(cur, Head(s)))

Split(s, sep) == SplitOn(s, sep, <<>>)

\* Pattern::new on the modelled tokens: a "[" that opens no closed character
\* class is ERROR_INVALID_RANGE; every other modelled token compiles, the
\* empty token included (a pattern with no tokens).
PatternNewOk(tok) == \A i \in 1..Len(tok) : tok[i] # "["

\* Pattern::matches_with: "*" any sequence, "?" any one character, anything
\* else a literal; with require_literal_separator neither wildcard matches "/".
RECURSIVE MatchFrom(_, _, _, _, _)
MatchFrom(pat, i, str, j, literal_sep) ==
  IF i > Len(pat) THEN j > Len(str)
  ELSE IF pat[i] = "*" THEN
    \E k \in j..(Len(str) + 1) :
       /\ literal_sep => \A m \in j..(k - 1) : str[m] # "/"
       /\ MatchFrom(pat, i + 1, str, k, literal_sep)
  ELSE IF pat[i] = "?" THEN
    /\ j <= Len(str)
    /\ literal_sep => str[j] # "/"
    /\ MatchFrom(pat, i + 1, str, j + 1, literal_sep)
  ELSE
    /\ j <= Len(str)
    /\ str[j] = pat[i]
    /\ MatchFrom(pat, i + 1, str, j + 1, literal_sep)

MatchesWith(pat, str, literal_sep) == MatchFrom(pat, 1, str, 1, literal_sep)

\* Pattern::matches: MatchOptions::new(), require_literal_separator = false
Matches(pat, str) == MatchesWith(pat, str, FALSE)

(* ---------------------------------------------------------------------- *)
(* should_exclude (lines 127-132)                                          *)
(* ---------------------------------------------------------------------- *)
\* str::replace("./", ""): every non-overlapping occurrence, left to right
RECURSIVE ReplaceDotSlash(_)
ReplaceDotSlash(s) ==
  IF s = <<>> THEN <<>>
  ELSE IF Len(s) >= 2 /\ s[1] = "." /\ s[2] = "/"
       THEN ReplaceDotSlash(SubSeq(s, 3, Len(s)))
       ELSE <<Head(s)>> \o ReplaceDotSlash(Tail(s))

should_exclude_literal_sep(path, exclude_patterns) ==
  \E i \in 1..Len(exclude_patterns) :
     MatchesWith(exclude_patterns[i], ReplaceDotSlash(path), TRUE)

should_exclude(path, exclude_patterns) ==
  \E i \in 1..Len(exclude_patterns) :
     Matches(exclude_patterns[i], ReplaceDotSlash(path))

(* ---------------------------------------------------------------------- *)
(* std::path::Path                                                         *)
(* ---------------------------------------------------------------------- *)
None == [some |-> FALSE, v |-> <<>>]

Some(x) == [some |-> TRUE, v |-> x]

\* Path::join of a relative file name (DirEntry::path, lines 152 and 198)
Join(path, name) ==
  IF path = <<>> \/ Last(path) = "/" THEN path \o name
  ELSE path \o <<"/">> \o name

\* Path::components of a relative path: empty segments and every "." that
\* is not the first segment are dropped
Components(path) ==
  LET segs == Split(path, "/")
      keep == {i \in 1..Len(segs) :
                 /\ segs[i] # <<>>
                 /\ (segs[i] = <<".">> => i = 1)}
      RECURSIVE Pick(_)
      Pick(i) == IF i > Len(segs) THEN <<>>
                 ELSE IF i \in keep THEN <<segs[i]>> \o Pick(i + 1)
                 ELSE Pick(i + 1)
  IN  Pick(1)

\* Path::file_name: the last component when it is a normal one
FileName(path) ==
  LET comps == Components(path)
  IN  IF comps = <<>> THEN None
      ELSE IF Last(comps) \in {<<".">>, <<".", ".">>} THEN None
      ELSE Some(Last(comps))

\* Path::extension: the part of file_name after its last ".", unless the
\* name has no "." or only a leading one
Extension(path) ==
  LET fname == FileName(path)
  IN  IF ~fname.some THEN None
      ELSE LET n == fname.v
               dots == {i \in 1..Len(n) : n[i] = "."}
           IN  IF dots = {} THEN None
               ELSE LET k == CHOOSE i \in dots : \A m \in dots : m <= i
                    IN  IF k = 1 THEN None
                        ELSE Some(SubSeq(n, k + 1, Len(n)))

\* the name build_tree gives a TreeItem (lines 140-143)
item_name(path) ==
  LET fname == FileName(path) IN IF fname.some THEN fname.v ELSE path

(* ---------------------------------------------------------------------- *)
(* is_plain_text_file (lines 89-118) and the language tag (lines 206-249)  *)
(* ---------------------------------------------------------------------- *)
PLAIN_TEXT_EXTENSIONS ==
  { <<"t", "s">>,
    <<"t", "s", "x">>,
    <<"j", "s">>,
    <<"j", "s", "x">>,
    <<"j", "s", "o", "n">>,
    <<"h", "t", "m", "l">>,
    <<"h", "t", "m">>,
    <<"c", "s", "s">>,
    <<"s", "c", "s", "s">>,
    <<"s", "a", "s", "s">>,
    <<"t", "w", "i", "g">>,
    <<"e", "j", "s">>,
    <<"h", "b", "s">>,
    <<"v", "u", "e">>,
    <<"s", "v", "e", "l", "t", "e">>,
    <<"y", "m", "l">>,
    <<"y", "a", "m", "l">>,
    <<"t", "o", "m", "l">>,
    <<"i", "n", "i">>,
    <<"e", "n", "v">>,
    <<"m", "d">>,
    <<"m", "a", "r", "k", "d", "o", "w", "n">>,
    <<"t", "x", "t">>,
    <<"r", "s", "t">>,
    <<"p", "y">>,
    <<"r", "b">>,
    <<"p", "h", "p">>,
    <<"j", "a", "v", "a">>,
    <<"g", "o">>,
    <<"r", "s">>,
    <<"c">>,
    <<"c", "p", "p">>,
    <<"h">>,
    <<"h", "p", "p">>,
    <<"s", "h">>,
    <<"b", "a", "s", "h">> }

\* str::to_lowercase on the modelled alphabet ("M" and "D" are its only
\* upper-case letters)
LowerChar(c) == IF c = "M" THEN "m" ELSE IF c = "D" THEN "d" ELSE c

ToLowercase(s) == [i \in 1..Len(s) |-> LowerChar(s[i])]

\* MimeGuess::from_path(path).first() on the extensions the model uses
\* outside the allow-list: log is text/plain, png is image/png, every other
\* modelled extension (and no extension) has no guess
MimeGuessIsText(path) ==
  LET ext == Extension(path)
  IN  ext.some /\ ToLowercase(ext.v) = <<"l", "o", "g">>

is_plain_text_file(path) ==
  LET ext == Extension(path)
  IN  \/ ext.some /\ ToLowercase(ext.v) \in PLAIN_TEXT_EXTENSIONS
      \/ MimeGuessIsText(path)

LangOf(ext) ==
  CASE ext \in {<<"t", "s">>, <<"t", "s", "x">>} -> "typescript"
    [] ext \in {<<"j", "s">>, <<"j", "s", "x">>} -> "javascript"
    [] ext \in {<<"j", "s", "o", "n">>} -> "json"
    [] ext \in {<<"h", "t", "m", "l">>, <<"h", "t", "m">>} -> "html"
    [] ext \in {<<"c", "s", "s">>} -> "css"
    [] ext \in {<<"s", "c", "s", "s">>, <<"s", "a", "s", "s">>} -> "scss"
    [] ext \in {<<"t", "w", "i", "g">>} -> "twig"
    [] ext \in {<<"e", "j", "s">>} -> "ejs"
    [] ext \in {<<"h", "b", "s">>} -> "handlebars"
    [] ext \in {<<"v", "u", "e">>} -> "vue"
    [] ext \in {<<"s", "v", "e", "l", "t", "e">>} -> "svelte"
    [] ext \in {<<"y", "m", "l">>, <<"y", "a", "m", "l">>} -> "yaml"
    [] ext \in {<<"t", "o", "m", "l">>} -> "toml"
    [] ext \in {<<"i", "n", "i">>} -> "ini"
    [] ext \in {<<"e", "n", "v">>} -> "dotenv"
    [] ext \in {<<"m", "d">>, <<"m", "a", "r", "k", "d", "o", "w", "n">>} -> "markdown"
    [] ext \in {<<"t", "x", "t">>} -> ""
    [] ext \in {<<"r", "s", "t">>} -> "restructuredtext"
    [] ext \in {<<"p", "y">>} -> "python"
    [] ext \in {<<"r", "b">>} -> "ruby"
    [] ext \in {<<"p", "h", "p">>} -> "php"
    [] ext \in {<<"j", "a", "v", "a">>} -> "java"
    [] ext \in {<<"g", "o">>} -> "go"
    [] ext \in {<<"r", "s">>} -> "rust"
    [] ext \in {<<"c">>} -> "c"
    [] ext \in {<<"c", "p", "p">>} -> "cpp"
    [] ext \in {<<"h">>, <<"h", "p", "p">>} -> "cpp"
    [] ext \in {<<"s", "h">>, <<"b", "a", "s", "h">>} -> "bash"
    [] OTHER -> ""

\* the match of lines 206-249 is on the extension as written (no lowercase)
lang(path) ==
  LET ext == Extension(path) IN IF ext.some THEN LangOf(ext.v) ELSE ""

(* ---------------------------------------------------------------------- *)
(* The filesystem the run reads (unchanging during the run)                *)
(* ---------------------------------------------------------------------- *)
\* A node is a directory, a regular file, or a symbolic link to nothing
\* (fs::metadata fails on it); a directory lists entries in read_dir order,
\* an entry being a node or an enumeration error.
Dir(name, entries) ==
  [kind |-> "dir", name |-> name, readable |-> TRUE, bytes |-> <<>>,
   entries |-> entries]

\* a directory without read permission: metadata succeeds, read_dir fails
LockedDir(name) ==
  [kind |-> "dir", name |-> name, readable |-> FALSE, bytes |-> <<>>,
   entries |-> <<>>]

File(name, bytes) ==
  [kind |-> "file", name |-> name, readable |-> TRUE, bytes |-> bytes,
   entries |-> <<>>]

\* a file without read permission: File::open fails
LockedFile(name) ==
  [kind |-> "file", name |-> name, readable |-> FALSE, bytes |-> <<>>,
   entries |-> <<>>]

Dangling(name) ==
  [kind |-> "dangling", name |-> name, readable |-> FALSE, bytes |-> <<>>,
   entries |-> <<>>]

\* an Err item of the read_dir iterator
EntryError ==
  [kind |-> "entry_error", name |-> <<>>, readable |-> FALSE, bytes |-> <<>>,
   entries |-> <<>>]

(* ---------------------------------------------------------------------- *)
(* read_file (lines 120-125)                                               *)
(* ---------------------------------------------------------------------- *)
\* bytes of the modelled files: x, the line feed, and one byte that is not
\* UTF-8
ByteX == 120

ByteNewline == 10

ByteInvalid == 255

Utf8Valid(bytes) == \A i \in 1..Len(bytes) : bytes[i] < 128

DecodeByte(b) ==
  CASE b = ByteX -> "x"
    [] b = ByteNewline -> "\n"
    [] OTHER -> "?"

EncodeChar(c) ==
  CASE c = "x" -> ByteX
    [] c = "\n" -> ByteNewline
    [] OTHER -> ByteInvalid

Encode(text) == [i \in 1..Len(text) |-> EncodeChar(text[i])]

\* a read_file that loses the file's trailing line terminators
read_file_trimmed(node) ==
  IF node.kind # "file" \/ ~node.readable \/ ~Utf8Valid(node.bytes)
  THEN [ok |-> FALSE, content |-> <<>>]
  ELSE LET RECURSIVE Strip(_)
           Strip(s) == IF s # <<>> /\ Last(s) = "\n"
                       THEN Strip(DropLast(s)) ELSE s
       IN  [ok |-> TRUE,
            content |-> Strip([i \in 1..Len(node.bytes) |->
                                 DecodeByte(node.bytes[i])])]

\* File::open fails on a dangling link or an unreadable file, read_to_string
\* fails on bytes that are not UTF-8; otherwise the content is the decoded
\* bytes
read_file(node) ==
  IF node.kind # "file" \/ ~node.readable \/ ~Utf8Valid(node.bytes)
  THEN [ok |-> FALSE, content |-> <<>>]
  ELSE [ok |-> TRUE,
        content |-> [i \in 1..Len(node.bytes) |-> DecodeByte(node.bytes[i])]]

(* ---------------------------------------------------------------------- *)
(* build_tree (lines 134-161)                                              *)
(* ---------------------------------------------------------------------- *)
\* TreeItem::new (lines 15-20)
TreeItem(name) == [name |-> name, children |-> <<>>]

\* TreeItem::add_child (lines 22-24)
add_child(item, child) ==
  [item EXCEPT !.children = Append(item.children, child)]

\* filter_map(Result::ok) of line 148
OkEntries(entries) == SelectSeq(entries, LAMBDA e : e.kind # "entry_error")

\* the test of line 153 left out: every entry is built
child_included_always(child_path, exclude_patterns) == TRUE

\* line 153
child_included(child_path, exclude_patterns) ==
  ~should_exclude(child_path, exclude_patterns)

\* The result carries the directories read_dir was called on (reads), so
\* that the two traversals can be compared.
RECURSIVE build_tree(_, _, _)
RECURSIVE build_children(_, _, _, _, _)
build_tree(path, node, exclude_patterns) ==
  IF node.kind = "dangling"
  THEN [ok |-> FALSE, tree |-> TreeItem(<<>>), reads |-> {}]
  ELSE IF node.kind = "dir" /\ ~should_exclude(path, exclude_patterns)
  THEN IF ~node.readable
       THEN [ok |-> FALSE, tree |-> TreeItem(<<>>), reads |-> {path}]
       ELSE LET r == build_children(path, OkEntries(node.entries), 1,
                                    exclude_patterns,
                                    [ok |-> TRUE,
                                     tree |-> TreeItem(item_name(path)),
                                     reads |-> {path}])
            IN  r
  ELSE [ok |-> TRUE, tree |-> TreeItem(item_name(path)), reads |-> {}]

\* the loop of lines 151-157 from entry i on; acc is the root built so far
build_children(path, entries, i, exclude_patterns, acc) ==
  IF i > Len(entries) THEN acc
  ELSE LET child_path == Join(path, entries[i].name)
       IN  IF child_included(child_path, exclude_patterns)
           THEN LET child == build_tree(child_path, entries[i],
                                        exclude_patterns)
                IN  IF ~child.ok
                    THEN [ok |-> FALSE, tree |-> TreeItem(<<>>),
                          reads |-> acc.reads \cup child.reads]
                    ELSE build_children(path, entries, i + 1,
                           exclude_patterns,
                           [ok |-> TRUE,
                            tree |-> add_child(acc.tree, child.tree),
                            reads |-> acc.reads \cup child.reads])
           ELSE build_children(path, entries, i + 1, exclude_patterns, acc)

(* ---------------------------------------------------------------------- *)
(* Output: each println!/eprintln! is one write                            *)
(* ---------------------------------------------------------------------- *)
\* A write records the statement that made it (site), the path it is about
\* (empty when it is about none) and its text, a sequence of characters and
\* fixed fragments ending with the line terminator println! adds.
println(site, path, text) ==
  [site |-> site, path |-> path, text |-> text \o <<"\n">>]

\* fixed fragments of the output; the module writes the box-drawing
\* characters and the fence in ASCII:  |--  for U+251C U+2500 U+2500,
\* +--  for U+2514 U+2500 U+2500,  |  for U+2502,  ~~~  for three backticks
TeeConnector == "|-- "

ElbowConnector == "+-- "

BarPrefix == "|   "

BlankPrefix == "    "

Fence == "~~~"

(* ---------------------------------------------------------------------- *)
(* print_tree_item (lines 163-177) and print_tree (lines 179-190)          *)
(* ---------------------------------------------------------------------- *)
\* the connector chosen without looking at is_last
connector_always_tee(is_last) == TeeConnector

\* line 164
connector(is_last) == IF is_last THEN ElbowConnector ELSE TeeConnector

\* lines 167-171
new_prefix(prefix, is_last) ==
  IF is_last THEN Append(prefix, BlankPrefix) ELSE Append(prefix, BarPrefix)

RECURSIVE print_tree_item(_, _, _)
RECURSIVE print_children(_, _, _)
print_tree_item(item, prefix, is_last) ==
  <<println("tree_item", <<>>, prefix \o <<connector(is_last)>> \o item.name)>>
    \o print_children(item.children, new_prefix(prefix, is_last), 1)

\* the loops of lines 173-176 and 184-187 from child i on
print_children(children, prefix, i) ==
  IF i > Len(children) THEN <<>>
  ELSE print_tree_item(children[i], prefix, i = Len(children))
         \o print_children(children, prefix, i + 1)

\* lines 183-187, once build_tree has returned the tree
print_built_tree(path, tree) ==
  <<println("tree_root", <<>>, path)>> \o print_children(tree.children, <<>>, 1)

(* ---------------------------------------------------------------------- *)
(* list_dir_recursive (lines 192-272)                                      *)
(* ---------------------------------------------------------------------- *)
\* lines 251-255: the block printed for a file that was read
file_block(entry_path, content) ==
  << println("file_header", entry_path,
             <<"- ", "\"">> \o entry_path \o <<"\"", ":">>),
     println("fence_open", entry_path, <<Fence, lang(entry_path)>>),
     println("content", entry_path, content),
     println("fence_close", entry_path, <<Fence>>),
     println("blank", entry_path, <<>>) >>

\* line 258 (a println!: the message goes to standard output)
read_error(entry_path) ==
  println("read_error", entry_path,
          <<"Error reading file ", "\"">> \o entry_path \o <<"\"", ": ", "io error">>)

\* line 267 (a println!: the message goes to standard output)
entry_error == println("entry_error", <<>>, <<"Error reading entry: ", "io error">>)

\* line 263 (an eprintln!)
not_plaintext(entry_path) ==
  println("not_plaintext", entry_path,
          <<"ERROR: ", "\"">> \o entry_path \o <<"\"", " is not plaintext...">>)

\* The result carries what was printed (out, err), the directories read_dir
\* was called on (reads) and whether the call returned Ok.
RECURSIVE list_dir_recursive(_, _, _)
RECURSIVE list_entries(_, _, _, _, _)
list_dir_recursive(path, node, exclude_patterns) ==
  IF node.kind = "dir"
  THEN IF ~node.readable
       THEN [ok |-> FALSE, out |-> <<>>, err |-> <<>>, reads |-> {path}]
       ELSE list_entries(path, node.entries, 1, exclude_patterns,
                         [ok |-> TRUE, out |-> <<>>, err |-> <<>>,
                          reads |-> {path}])
  ELSE [ok |-> TRUE, out |-> <<>>, err |-> <<>>, reads |-> {}]

\* the loop of lines 195-269 from entry i on; acc is what was done so far
list_entries(path, entries, i, exclude_patterns, acc) ==
  IF i > Len(entries) THEN acc
  ELSE LET entry == entries[i]
           entry_path == Join(path, entry.name)
           rest(a) == list_entries(path, entries, i + 1, exclude_patterns, a)
       IN  IF entry.kind = "entry_error"
           THEN rest([acc EXCEPT !.out = Append(@, entry_error)])
           ELSE IF should_exclude(entry_path, exclude_patterns)
           THEN rest(acc)
           ELSE IF entry.kind = "dir"
           THEN LET sub == list_dir_recursive(entry_path, entry,
                                              exclude_patterns)
                    merged == [ok |-> sub.ok,
                               out |-> acc.out \o sub.out,
                               err |-> acc.err \o sub.err,
                               reads |-> acc.reads \cup sub.reads]
                IN  IF sub.ok THEN rest(merged) ELSE merged
           ELSE IF is_plain_text_file(entry_path)
           THEN LET r == read_file(entry)
                IN  IF r.ok
                    THEN rest([acc EXCEPT
                                 !.out = @ \o file_block(entry_path, r.content)])
                    ELSE rest([acc EXCEPT
                                 !.out = Append(@, read_error(entry_path))])
           ELSE rest([acc EXCEPT
                        !.err = Append(@, not_plaintext(entry_path))])

(* ---------------------------------------------------------------------- *)
(* Inputs of a run                                                         *)
(* ---------------------------------------------------------------------- *)
n_sub == <<"s", "u", "b">>

n_empty_dir == <<"e", "m", "p", "t", "y", "_", "d", "i", "r">>

n_a_log == <<"a", ".", "l", "o", "g">>

n_d_log == <<"d", ".", "l", "o", "g">>

n_a_txt == <<"a", ".", "t", "x", "t">>

n_b_txt == <<"b", ".", "t", "x", "t">>

n_l_txt == <<"l", ".", "t", "x", "t">>

n_b_png == <<"b", ".", "p", "n", "g">>

n_b_md == <<"B", ".", "M", "D">>

n_c_rs == <<"c", ".", "r", "s">>

n_a_dot == <<"a", ".">>

TextBytes == <<ByteX, ByteNewline>>

\* dir/sub/empty_dir next to a text file
SubTree ==
  Dir(<<>>, << Dir(n_sub, <<Dir(n_empty_dir, <<>>)>>),
               File(n_a_txt, TextBytes) >>)

\* entries ending in .log at the top level and n directories below it
RECURSIVE LogEntries(_)
LogEntries(n) ==
  IF n = 0
  THEN << File(n_a_log, TextBytes),
          Dir(n_d_log, <<File(n_a_txt, TextBytes)>>),
          File(n_a_txt, TextBytes) >>
  ELSE << File(n_a_log, TextBytes), Dir(n_sub, LogEntries(n - 1)) >>

LogTree(n) == Dir(<<>>, LogEntries(n))

\* a subdirectory that cannot be read, between two text files
LockedTree ==
  Dir(<<>>, << File(n_a_txt, TextBytes), LockedDir(n_sub),
               File(n_b_txt, TextBytes) >>)

\* a file that cannot be opened, an enumeration error, files that are not
\* text, an upper-case extension and a directory whose name ends in "."
MixedTree ==
  Dir(<<>>, << LockedFile(n_a_txt), EntryError, File(n_b_png, <<ByteInvalid>>),
               File(n_b_md, TextBytes), File(<<"x">>, TextBytes),
               Dir(n_a_dot, <<File(n_c_rs, TextBytes)>>) >>)

\* a symbolic link to nothing after a text file
DanglingTree ==
  Dir(<<>>, << File(n_a_txt, TextBytes), Dangling(n_l_txt) >>)

\* three levels with last and non-last siblings at each
WideTree ==
  Dir(<<>>, << Dir(<<"a">>, << File(<<"c">>, <<>>),
                              Dir(<<"d">>, << File(<<"e">>, <<>>),
                                              File(<<"h">>, <<>>) >>) >>),
               Dir(<<"b">>, <<File(<<"f">>, <<>>)>>),
               Dir(<<"g">>, <<File(<<"i">>, <<>>)>>) >>)

Contents == SeqsUpTo({ByteX, ByteNewline, ByteInvalid}, MaxContentLen)

ContentTree(bytes) == Dir(<<>>, <<File(n_a_txt, bytes)>>)

\* what the directory argument may name
Filesystems ==
  {SubTree, LockedTree, MixedTree, DanglingTree, WideTree,
   Dangling(<<>>), File(<<>>, TextBytes), LockedDir(<<>>)}
    \cup {LogTree(n) : n \in 0..MaxDepth}
    \cup {ContentTree(b) : b \in Contents}

\* values of --directory
Directories ==
  { <<".">>, <<".", "/">>, <<"d", "i", "r">>, <<".", ".">>,
    <<".", "/", "d", "i", "r">> }

\* values of --exclude (None: the option is absent)
Excludes ==
  { None,
    Some(<<>>),
    Some(<<"*", ".", "l", "o", "g">>),
    Some(<<"s", "u", "b">>),
    Some(<<"d", "i", "r">>),
    Some(<<".", "s", "u", "b">>),
    Some(<<" ", "s", "u", "b", " ", ",", "[">>),
    Some(<<"d", "i", "r", "/", "s", "u", "b">>),
    Some(<<"?", ".", "t", "x", "t", ",", "*", ".", "l", "o", "g">>) }

\* values of --prompt
Prompts == {None, Some(<<"h", "i">>)}

(* ---------------------------------------------------------------------- *)
(* main (lines 27-87)                                                      *)
(* ---------------------------------------------------------------------- *)
VARIABLES fs, directory, exclude, prompt, pc, exclude_patterns, tree,
          tree_built, build_reads, list_reads, list_ran, list_ok,
          stdout, stderr, exit_code

vars == <<fs, directory, exclude, prompt, pc, exclude_patterns, tree,
          tree_built, build_reads, list_reads, list_ran, list_ok,
          stdout, stderr, exit_code>>

\* lines 62-71: the patterns that compile, in token order
RECURSIVE compile_patterns(_)
compile_patterns(tokens) ==
  IF tokens = <<>> THEN <<>>
  ELSE IF PatternNewOk(Trim(Head(tokens)))
       THEN <<Trim(Head(tokens))>> \o compile_patterns(Tail(tokens))
       ELSE compile_patterns(Tail(tokens))

\* line 66: one warning per token that does not compile (the token is
\* printed as written, untrimmed)
RECURSIVE glob_warnings(_)
glob_warnings(tokens) ==
  IF tokens = <<>> THEN <<>>
  ELSE IF PatternNewOk(Trim(Head(tokens)))
       THEN glob_warnings(Tail(tokens))
       ELSE <<println("invalid_glob", <<>>,
                      <<"Warning: Invalid glob pattern '">> \o Head(tokens)
                        \o <<"': ", "invalid range pattern">>)>>
              \o glob_warnings(Tail(tokens))

\* what the runtime prints when main returns Err
main_error == println("main_error", <<>>, <<"Error: ", "io error">>)

Init ==
  /\ fs \in Filesystems
  /\ directory \in Directories
  /\ exclude \in Excludes
  /\ prompt \in Prompts
  /\ pc = "parse_exclude"
  /\ exclude_patterns = <<>>
  /\ tree = TreeItem(<<>>)
  /\ tree_built = FALSE
  /\ build_reads = {}
  /\ list_reads = {}
  /\ list_ran = FALSE
  /\ list_ok = FALSE
  /\ stdout = <<>>
  /\ stderr = <<>>
  /\ exit_code = -1

\* lines 59-73
ParseExclude ==
  /\ pc = "parse_exclude"
  /\ LET tokens == IF exclude.some THEN Split(exclude.v, ",") ELSE <<>>
     IN  /\ exclude_patterns' = compile_patterns(tokens)
         /\ stderr' = stderr \o glob_warnings(tokens)
  /\ pc' = "print_tree"
  /\ UNCHANGED <<fs, directory, exclude, prompt, tree, tree_built,
                 build_reads, list_reads, list_ran, list_ok, stdout,
                 exit_code>>

\* lines 74-76: the heading, then print_tree; its error ends the run
PrintTree ==
  /\ pc = "print_tree"
  /\ LET built == build_tree(directory, fs, exclude_patterns)
         heading == println("tree_heading", <<>>, <<"### File Tree:">>)
     IN  /\ build_reads' = built.reads
         /\ tree_built' = built.ok
         /\ IF built.ok
            THEN /\ tree' = built.tree
                 /\ stdout' = Append(stdout, heading)
                                \o print_built_tree(directory, built.tree)
                 /\ pc' = "list_files"
                 /\ UNCHANGED <<stderr, exit_code>>
            ELSE /\ stdout' = Append(stdout, heading)
                 /\ stderr' = Append(stderr, main_error)
                 /\ exit_code' = 1
                 /\ pc' = "exit"
                 /\ UNCHANGED tree
  /\ UNCHANGED <<fs, directory, exclude, prompt, exclude_patterns,
                 list_reads, list_ran, list_ok>>

\* lines 77-79: the heading, then list_dir_recursive; its error ends the run
ListFiles ==
  /\ pc = "list_files"
  /\ LET listed == list_dir_recursive(directory, fs, exclude_patterns)
         heading == println("files_heading", <<>>, <<"\n", "\n", "### Files:">>)
     IN  /\ list_reads' = listed.reads
         /\ list_ran' = TRUE
         /\ list_ok' = listed.ok
         /\ stdout' = Append(stdout, heading) \o listed.out
         /\ IF listed.ok
            THEN /\ stderr' = stderr \o listed.err
                 /\ pc' = "print_prompt"
                 /\ UNCHANGED exit_code
            ELSE /\ stderr' = Append(stderr \o listed.err, main_error)
                 /\ exit_code' = 1
                 /\ pc' = "exit"
  /\ UNCHANGED <<fs, directory, exclude, prompt, exclude_patterns, tree,
                 tree_built, build_reads>>

\* lines 81-86
PrintPrompt ==
  /\ pc = "print_prompt"
  /\ stdout' = IF prompt.some
               THEN stdout \o << println("prompt_heading", <<>>,
                                          <<"\n", "\n", "### Prompt:">>),
                                  println("prompt", <<>>, prompt.v) >>
               ELSE stdout
  /\ exit_code' = 0
  /\ pc' = "exit"
  /\ UNCHANGED <<fs, directory, exclude, prompt, exclude_patterns, tree,
                 tree_built, build_reads, list_reads, list_ran, list_ok,
                 stderr>>

Next == ParseExclude \/ PrintTree \/ ListFiles \/ PrintPrompt

Spec == Init /\ [][Next]_vars

(* ---------------------------------------------------------------------- *)
(* Vocabulary of the properties                                            *)
(* ---------------------------------------------------------------------- *)
\* every entry below the root with its node and the chain of paths from its
\* top-level ancestor down to itself, whatever is excluded or unreadable
RECURSIVE EntriesBelow(_, _, _)
EntriesBelow(path, node, chain) ==
  UNION { LET e == node.entries[i]
              p == Join(path, e.name)
              c == Append(chain, p)
          IN  IF e.kind = "entry_error" THEN {}
              ELSE {[path |-> p, node |-> e, chain |-> c]}
                     \cup EntriesBelow(p, e, c)
          : i \in 1..Len(node.entries) }

AllEntries == EntriesBelow(directory, fs, <<>>)

Excluded(path) == should_exclude(path, exclude_patterns)

\* entries none of whose ancestors below the root, nor itself, is excluded
Unpruned == {e \in AllEntries : \A i \in 1..Len(e.chain) : ~Excluded(e.chain[i])}

\* the paths of the nodes of a built tree below its root, in pre-order
RECURSIVE ItemPaths(_, _)
ItemPaths(children, parent_path) ==
  IF children = <<>> THEN <<>>
  ELSE LET p == Join(parent_path, Head(children).name)
       IN  <<p>> \o ItemPaths(Head(children).children, p)
               \o ItemPaths(Tail(children), parent_path)

TreePaths == ItemPaths(tree.children, directory)

\* the names of the nodes of a built tree below its root
RECURSIVE ItemNames(_)
ItemNames(children) ==
  IF children = <<>> THEN {}
  ELSE {Head(children).name} \cup ItemNames(Head(children).children)
         \cup ItemNames(Tail(children))

WritesAt(stream, sites) == SelectSeq(stream, LAMBDA w : w.site \in sites)

TreeLines == WritesAt(stdout, {"tree_item"})

DotLog == <<".", "l", "o", "g">>

StarDotLog == <<"*", ".", "l", "o", "g">>

(* ---------------------------------------------------------------------- *)
(* C1                                                                      *)
(* ---------------------------------------------------------------------- *)
\* C1: the tree build_tree returns, and the lines print_tree prints for it,
\* hold exactly the entries reachable from the root through entries that
\* are not excluded (none when the root itself is excluded or is no
\* directory), each of them once.
C1_TreeIsExactlyUnpruned ==
  tree_built =>
    LET expected == IF fs.kind = "dir" /\ ~Excluded(directory)
                    THEN {e.path : e \in Unpruned} ELSE {}
    IN  /\ Range(TreePaths) = expected
        /\ Len(TreePaths) = Cardinality(expected)
        /\ \A i \in 1..Len(TreePaths) : ~Excluded(TreePaths[i])
        /\ Len(TreeLines) = Len(TreePaths)

\* a tree was built that holds an entry two levels down while an entry of a
\* directory it visited is excluded
C1_Witness ==
  /\ tree_built
  /\ \E e \in Unpruned : Len(e.chain) >= 2 /\ e.path \in Range(TreePaths)
  /\ \E e \in AllEntries :
        /\ Excluded(e.path)
        /\ \A i \in 1..(Len(e.chain) - 1) : ~Excluded(e.chain[i])
        /\ Len(e.chain) >= 2

(* ---------------------------------------------------------------------- *)
(* C2                                                                      *)
(* ---------------------------------------------------------------------- *)
\* C2: list_dir_recursive calls read_dir on exactly the directories
\* build_tree called it on, also when the root matches an exclusion pattern.
C2_SameDirectoriesRead == list_ran => list_reads = build_reads

(* ---------------------------------------------------------------------- *)
(* C3                                                                      *)
(* ---------------------------------------------------------------------- *)
\* C3: when *.log is one of the patterns, no entry below the root whose path
\* ends in .log is in the built tree, in a printed tree line or in the
\* content dump.
C3_StarLogRemovesEveryLog ==
  StarDotLog \in Range(exclude_patterns) =>
    /\ \A i \in 1..Len(TreePaths) : ~EndsWith(TreePaths[i], DotLog)
    /\ \A i \in 1..Len(stdout) :
          /\ stdout[i].site = "tree_item"
               => ~EndsWith(DropLast(stdout[i].text), DotLog)
          /\ stdout[i].site \in {"file_header", "fence_open", "content",
                                 "fence_close", "blank", "read_error"}
               => ~EndsWith(stdout[i].path, DotLog)
    /\ \A i \in 1..Len(stderr) : ~EndsWith(stderr[i].path, DotLog)

\* the run finished with *.log excluded over a tree that has an entry ending
\* in .log two or more directories below the root, inside a directory that
\* is in the tree and whose text file was dumped
C3_Witness ==
  /\ pc = "exit" /\ exit_code = 0
  /\ StarDotLog \in Range(exclude_patterns)
  /\ \E e \in AllEntries :
        /\ EndsWith(e.path, DotLog)
        /\ Len(e.chain) >= 3
        /\ e.chain[Len(e.chain) - 1] \in Range(TreePaths)
  /\ \E i \in 1..Len(stdout) : stdout[i].site = "content"

(* ---------------------------------------------------------------------- *)
(* C4                                                                      *)
(* ---------------------------------------------------------------------- *)
\* C4: whatever the root, with exclusion pattern sub the built tree has no
\* node named sub below the root and no tree line is printed for one (root
\* dir holding dir/sub/empty_dir: no sub node).
C4_NoSubNodeUnderAnyRoot ==
  (tree_built /\ exclude_patterns = <<n_sub>>) =>
    /\ n_sub \notin ItemNames(tree.children)
    /\ \A i \in 1..Len(TreeLines) :
          ~EndsWith(DropLast(TreeLines[i].text), n_sub)

(* ---------------------------------------------------------------------- *)
(* C5                                                                      *)
(* ---------------------------------------------------------------------- *)
\* C5: a run with --exclude "" builds the tree and prints the content dump
\* that the same run without --exclude builds and prints.
C5_EmptyExcludeIsNoExclude ==
  (exclude = Some(<<>>) /\ pc = "exit") =>
    LET plain == build_tree(directory, fs, <<>>)
        dump == list_dir_recursive(directory, fs, <<>>)
        sites == {"file_header", "fence_open", "content", "fence_close",
                  "blank", "read_error", "entry_error"}
    IN  /\ tree_built = plain.ok
        /\ plain.ok => /\ tree = plain.tree
                       /\ WritesAt(stdout, sites) = dump.out

(* ---------------------------------------------------------------------- *)
(* C6                                                                      *)
(* ---------------------------------------------------------------------- *)
\* the path with only a leading "./" removed
StripLeadingDotSlash(path) ==
  IF StartsWith(path, <<".", "/">>) THEN SubSeq(path, 3, Len(path)) ELSE path

\* C6: for the root and every entry path of the run, should_exclude is true
\* exactly when the path with only its leading "./" removed matches one of
\* the patterns.
C6_OnlyLeadingDotSlashStripped ==
  \A p \in {directory} \cup {e.path : e \in AllEntries} :
     should_exclude(p, exclude_patterns)
       <=> \E i \in 1..Len(exclude_patterns) :
              Matches(exclude_patterns[i], StripLeadingDotSlash(p))

(* ---------------------------------------------------------------------- *)
(* C7                                                                      *)
(* ---------------------------------------------------------------------- *)
\* C7: a run that ends with a non-zero exit status is a run whose build_tree
\* failed; once the tree is built, list_dir_recursive returns Ok.
C7_NonZeroOnlyWhenBuildFails ==
  /\ (pc = "exit" /\ exit_code # 0) => ~tree_built
  /\ (tree_built /\ list_ran) => list_ok

(* ---------------------------------------------------------------------- *)
(* C8                                                                      *)
(* ---------------------------------------------------------------------- *)
\* C8: standard output receives only the headings, the tree, the file
\* blocks and the prompt; warnings and read errors are on standard error.
C8_ErrorsOnlyOnStderr ==
  \A i \in 1..Len(stdout) :
     stdout[i].site \in {"tree_heading", "tree_root", "tree_item",
                         "files_heading", "file_header", "fence_open",
                         "content", "fence_close", "blank",
                         "prompt_heading", "prompt"}

(* ---------------------------------------------------------------------- *)
(* C9                                                                      *)
(* ---------------------------------------------------------------------- *)
\* files list_dir_recursive reaches and can read as text: below the root
\* through entries that are not excluded, regular, readable, UTF-8, and
\* classified as plain text
DumpableFiles ==
  IF fs.kind # "dir" THEN {}
  ELSE {e \in Unpruned :
          /\ e.node.kind = "file"
          /\ e.node.readable
          /\ Utf8Valid(e.node.bytes)
          /\ is_plain_text_file(e.path)}

\* C9: for every readable, non-excluded plain-text file the run prints one
\* block; the write between its two fence lines is the file's content
\* followed by the line terminator, so that its text without that
\* terminator encodes back to the file's bytes; nothing else is printed
\* between fences.
C9_ContentRoundTrip ==
  (list_ran /\ list_ok) =>
    /\ \A e \in DumpableFiles :
          \E i \in 2..(Len(stdout) - 1) :
             /\ stdout[i].site = "content" /\ stdout[i].path = e.path
             /\ stdout[i - 1].site = "fence_open"
             /\ stdout[i + 1].site = "fence_close"
             /\ stdout[i + 1].text = <<Fence, "\n">>
             /\ Last(stdout[i].text) = "\n"
             /\ Encode(DropLast(stdout[i].text)) = e.node.bytes
    /\ \A i \in 1..Len(stdout) :
          stdout[i].site = "content" =>
            \E e \in DumpableFiles :
               /\ e.path = stdout[i].path
               /\ Encode(DropLast(stdout[i].text)) = e.node.bytes

\* a file whose content ends with a line terminator was dumped
C9_Witness ==
  /\ list_ran /\ list_ok
  /\ \E e \in DumpableFiles :
        /\ Len(e.node.bytes) >= 2
        /\ Last(e.node.bytes) = ByteNewline
        /\ \E i \in 1..Len(stdout) :
              stdout[i].site = "content" /\ stdout[i].path = e.path

(* ---------------------------------------------------------------------- *)
(* C10                                                                     *)
(* ---------------------------------------------------------------------- *)
\* positions of the nodes below the root: the child indices leading to them
RECURSIVE PositionsUnder(_, _)
PositionsUnder(item, pos) ==
  UNION { {Append(pos, i)} \cup PositionsUnder(item.children[i], Append(pos, i))
          : i \in 1..Len(item.children) }

Positions == PositionsUnder(tree, <<>>)

RECURSIVE ItemAt(_, _)
ItemAt(item, pos) ==
  IF pos = <<>> THEN item ELSE ItemAt(item.children[Head(pos)], Tail(pos))

IsLastSibling(pos) == Last(pos) = Len(ItemAt(tree, DropLast(pos)).children)

\* p comes before q in depth-first pre-order
PreOrderBefore(p, q) ==
  /\ p # q
  /\ \/ Len(p) < Len(q) /\ SubSeq(q, 1, Len(p)) = p
     \/ \E k \in 1..Len(p) :
           /\ k <= Len(q)
           /\ SubSeq(p, 1, k - 1) = SubSeq(q, 1, k - 1)
           /\ p[k] < q[k]

PreOrderRank(p) == 1 + Cardinality({q \in Positions : PreOrderBefore(q, p)})

\* the line the rendering rule gives the node at pos: one fragment per
\* ancestor below the root, the connector, the name
RenderedLine(pos) ==
  [k \in 1..(Len(pos) - 1) |->
     IF IsLastSibling(SubSeq(pos, 1, k)) THEN BlankPrefix ELSE BarPrefix]
    \o <<IF IsLastSibling(pos) THEN ElbowConnector ELSE TeeConnector>>
    \o ItemAt(tree, pos).name \o <<"\n">>

\* C10: the tree lines on standard output are the nodes of the built tree
\* in depth-first pre-order, each with the prefix and connector of the
\* rendering rule, after the line that shows the root path.
C10_RenderedInPreOrder ==
  (tree_built /\ pc # "print_tree") =>
    /\ Len(TreeLines) = Cardinality(Positions)
    /\ \A p \in Positions : TreeLines[PreOrderRank(p)].text = RenderedLine(p)
    /\ stdout[2] = println("tree_root", <<>>, directory)
    /\ \A i \in 1..Len(TreeLines) : stdout[2 + i] = TreeLines[i]

\* a printed tree with a node three levels down below a non-last ancestor
\* and a last one, and a node below a last top-level directory
C10_Witness ==
  /\ tree_built /\ pc # "print_tree"
  /\ \E p \in Positions :
        /\ Len(p) = 3
        /\ ~IsLastSibling(SubSeq(p, 1, 1))
        /\ IsLastSibling(SubSeq(p, 1, 2))
        /\ ~IsLastSibling(p)
  /\ \E p \in Positions : Len(p) = 2 /\ IsLastSibling(SubSeq(p, 1, 1))

====
